---- MODULE Spec2Model ----
(***************************************************************************)
(* A model of iterext: the lazy wrappers Iter (sync.ts) and AsyncIter      *)
(* (async.ts).  A chain is a raw source followed by the combinators        *)
(* applied to it; every combinator is a generator whose body runs only     *)
(* when the wrapper it belongs to is pulled.                               *)
(***************************************************************************)
EXTENDS Integers, Sequences, FiniteSets, TLC

\* ------------------------------------------------------------------ bounds
\* longest finite source, sequentialIntegers(1, MaxLen)
MaxLen == 2
\* largest argument given to take and skip
MaxN == 1
\* most combinators applied to one source
MaxStages == 2
\* pulls after which an infinite source is no longer followed
MaxPulls == (MaxStages + 1) * (MaxN + 1)
\* the element on which the failing function "boom" throws
BoomAt == 2
\* calls of next() made on a wrapper after its terminal operation returned
MaxExtra == 1

VARIABLES
  source,   \* descriptor of the raw source handed to new Iter(...)
  stages,   \* descriptors of the combinators applied so far, in order
  m,        \* run-time state of the source and of every generator
  pc,       \* "build" | "drain" | "done" | "failed" | "capped"
  term,     \* the terminal operation being run
  acc,      \* its local variable: result (an array or a number) or count
  ret,      \* what the terminal operation returned
  astages,  \* the same chain built on an AsyncIter: its combinators,
  am,       \* the run-time state of its source and generators,
  apc,      \* "none" (no AsyncIter of this source) or as pc,
  aacc,     \* the local variable of its terminal operation,
  aret,     \* what the promise of its terminal operation resolved to
  run,      \* chains given whole and drained one after another (RunSpec)
  ev        \* an AsyncIter chain followed promise by promise (AsyncSpec)

chainVars ==
  <<source, stages, m, pc, term, acc, ret, astages, am, apc, aacc, aret, run>>
vars == <<chainVars, ev>>

\* ------------------------------------------------------------- descriptors
\* function* sequentialIntegers(start, end), sync and async
Gen(lo, hi) ==
  [kind |-> "gen", lo |-> lo, hi |-> hi, unbounded |-> FALSE, f |-> "none"]
\* sequentialIntegers(start, Infinity)
GenFrom(lo) ==
  [kind |-> "gen", lo |-> lo, hi |-> 0, unbounded |-> TRUE, f |-> "none"]
\* Iter.repeatWith(func)
Rep(f) ==
  [kind |-> "repeatWith", lo |-> 0, hi |-> 0, unbounded |-> TRUE, f |-> f]

Stage(op, n, f, srcs) == [op |-> op, n |-> n, f |-> f, srcs |-> srcs]

\* ------------------------------------------------------ supplied functions
\* whether the supplied function throws on this item
Throws(f, x) == f = "boom" /\ x = BoomAt

\* predicates given to filter: (x) => x % 2 == 0, x % 2 == 1 and x > 1
Preds == {"isEven", "isOdd", "big"}
Pred1(f, x) ==
  CASE f = "isEven" -> x % 2 = 0
    [] f = "isOdd" -> x % 2 = 1
    [] f = "big" -> x > 1
    [] OTHER -> TRUE

\* the name of (x) => p1(x) && p2(x)
Both(p1, p2) == p1 \o "&&" \o p2

\* a predicate applied, (x) => p1(x) && p2(x) included
Pred(f, x) ==
  IF \E p1 \in Preds, p2 \in Preds : f = Both(p1, p2)
    THEN \A p1 \in Preds, p2 \in Preds :
           f = Both(p1, p2) => Pred1(p1, x) /\ Pred1(p2, x)
    ELSE Pred1(f, x)

\* functions given to map: (x) => x * 2 and (x) => x + 1
Fns == {"double", "inc"}
MapFn1(f, x) ==
  CASE f = "double" -> x * 2
    [] f = "inc" -> x + 1
    [] OTHER -> x

\* the name of (x) => g(f(x))
Then(f, g) == g \o "." \o f

\* a function applied, (x) => g(f(x)) included
MapFn(h, x) ==
  IF \E f \in Fns, g \in Fns : h = Then(f, g)
    THEN LET fg == CHOOSE fg \in Fns \X Fns : h = Then(fg[1], fg[2])
         IN MapFn1(fg[2], MapFn1(fg[1], x))
    ELSE MapFn1(h, x)

\* functions given to filterMap: (x) => x % 2 == 0 ? undefined : x * 2
FilterMapFn(f, x) ==
  IF f = "oddDouble"
    THEN [undef |-> x % 2 = 0, value |-> x * 2]
    ELSE [undef |-> FALSE, value |-> x]

\* functions given to repeatWith: (i) => i, (i) => i * i, () => [1, 2],
\* (i) => [1, ..., i] and (i) => [[i], []]
RepeatFn(f, i) ==
  CASE f = "square" -> i * i
    [] f = "pair" -> <<1, 2>>
    [] f = "upto" -> [j \in 1..i |-> j]
    [] f = "nested" -> << <<i>>, <<>> >>
    [] OTHER -> i

\* functions given to reduce: (prev, item) => prev + item, prev * item and
\* 2 * prev + item, and collect's (prev, curr) => [...prev, curr]
ReduceFn(f, prev, x) ==
  CASE f = "append" -> [prev EXCEPT !.items = Append(@, x)]
    [] f = "product" -> [prev EXCEPT !.n = @ * x]
    [] f = "shift" -> [prev EXCEPT !.n = 2 * @ + x]
    [] OTHER -> [prev EXCEPT !.n = @ + x]

\* ---------------------------------------------------------- pull results
Yield(v) == [kind |-> "value", value |-> v]
Done == [kind |-> "done", value |-> 0]
Thrown == [kind |-> "throw", value |-> 0]
Capped == [kind |-> "cap", value |-> 0]

\* ------------------------------------------------------- run-time records
NewSource == [pulls |-> 0, out |-> <<>>, fin |-> FALSE]

\* variant: zip advances its right side once when it is applied
NewGenEager(d) ==
  [pulls |-> 0, out |-> <<>>, fin |-> FALSE, count |-> 0, cur |-> 0,
   calls |-> 0, threw |-> FALSE, held |-> <<>>,
   subs |-> [j \in 1..Len(d.srcs) |->
               IF d.op = "zip" THEN [NewSource EXCEPT !.pulls = 1]
                               ELSE NewSource]]

\* a generator object in its suspended-start state
NewGen(d) ==
  [pulls |-> 0, out |-> <<>>, fin |-> FALSE, count |-> 0, cur |-> 0,
   calls |-> 0, threw |-> FALSE, held |-> <<>>,
   subs |-> [j \in 1..Len(d.srcs) |-> NewSource]]

\* variant: func(++index), the first element is func(1)
SrcNextPreIncrement(d, s) ==
  LET s1 == [s EXCEPT !.pulls = @ + 1] IN
  IF s.fin THEN [s |-> s1, r |-> Done]
  ELSE IF d.unbounded /\ s.pulls >= MaxPulls THEN [s |-> s, r |-> Capped]
  ELSE IF d.kind = "gen"
    THEN LET i == d.lo + Len(s.out) IN
         IF d.unbounded \/ i <= d.hi
           THEN [s |-> [s1 EXCEPT !.out = Append(@, i)], r |-> Yield(i)]
           ELSE [s |-> [s1 EXCEPT !.fin = TRUE], r |-> Done]
    ELSE LET v == RepeatFn(d.f, Len(s.out) + 1) IN
         [s |-> [s1 EXCEPT !.out = Append(@, v)], r |-> Yield(v)]

\* ---------------------------------------------------------- raw sources
\* one next() on a generator source; an unbounded one is followed for
\* MaxPulls pulls
SrcNext(d, s) ==
  LET s1 == [s EXCEPT !.pulls = @ + 1] IN
  IF s.fin THEN [s |-> s1, r |-> Done]
  ELSE IF d.unbounded /\ s.pulls >= MaxPulls THEN [s |-> s, r |-> Capped]
  ELSE IF d.kind = "gen"
    THEN LET i == d.lo + Len(s.out) IN
         IF d.unbounded \/ i <= d.hi
           THEN [s |-> [s1 EXCEPT !.out = Append(@, i)], r |-> Yield(i)]
           ELSE [s |-> [s1 EXCEPT !.fin = TRUE], r |-> Done]
    ELSE LET v == RepeatFn(d.f, Len(s.out)) IN
         [s |-> [s1 EXCEPT !.out = Append(@, v)], r |-> Yield(v)]

\* ------------------------------------------------------------ generators
RECURSIVE IterNext(_, _), FilterGen(_, _), FilterMapGen(_, _), MapGen(_, _),
          ChainGen(_, _), ZipGen(_, _), EnumerateGen(_, _), TakeGen(_, _),
          SkipGen(_, _), Body(_, _),
          ChainGenSkipsFirst(_, _), SkipGenOffByOne(_, _), IterNextRerun(_, _),
          FilterMapGenYieldsItem(_, _), FilterGenNegated(_, _),
          FlatGen(_, _), FlatGenFirstOnly(_, _), MapGenLooksAhead(_, _)

\* the order of events in a chain: "pull", an element leaves the raw source
\* (k = 0); "call", the function of stage k is invoked; "yield", wrapper k
\* hands an element to its consumer
Logged(M, e, k) == [M EXCEPT !.log = Append(@, [e |-> e, k |-> k])]

\* the supplied function of stage k is invoked once
Invoked(M, k, threw) ==
  Logged([M EXCEPT !.st[k].calls = @ + 1, !.st[k].threw = @ \/ threw],
         "call", k)

\* variant: the item is yielded when the predicate is false
FilterGenNegated(k, M) ==
  LET p == IterNext(k - 1, M) IN
  IF p.r.kind # "value" THEN p
  ELSE LET f == stages[k].f
           c == Invoked(p.m, k, Throws(f, p.r.value))
       IN IF Throws(f, p.r.value) THEN [m |-> c, r |-> Thrown]
          ELSE IF ~Pred(f, p.r.value) THEN [m |-> c, r |-> p.r]
          ELSE FilterGenNegated(k, c)

FilterGen(k, M) ==
  LET p == IterNext(k - 1, M) IN
  IF p.r.kind # "value" THEN p
  ELSE LET f == stages[k].f
           c == Invoked(p.m, k, Throws(f, p.r.value))
       IN IF Throws(f, p.r.value) THEN [m |-> c, r |-> Thrown]
          ELSE IF Pred(f, p.r.value) THEN [m |-> c, r |-> p.r]
          ELSE FilterGen(k, c)

\* variant: the item is yielded where the mapped value should be
FilterMapGenYieldsItem(k, M) ==
  LET p == IterNext(k - 1, M) IN
  IF p.r.kind # "value" THEN p
  ELSE LET f == stages[k].f
           c == Invoked(p.m, k, Throws(f, p.r.value))
           mapped == FilterMapFn(f, p.r.value)
       IN IF Throws(f, p.r.value) THEN [m |-> c, r |-> Thrown]
          ELSE IF ~mapped.undef THEN [m |-> c, r |-> p.r]
          ELSE FilterMapGenYieldsItem(k, c)

FilterMapGen(k, M) ==
  LET p == IterNext(k - 1, M) IN
  IF p.r.kind # "value" THEN p
  ELSE LET f == stages[k].f
           c == Invoked(p.m, k, Throws(f, p.r.value))
           mapped == FilterMapFn(f, p.r.value)
       IN IF Throws(f, p.r.value) THEN [m |-> c, r |-> Thrown]
          ELSE IF ~mapped.undef THEN [m |-> c, r |-> Yield(mapped.value)]
          ELSE FilterMapGen(k, c)

\* variant: a failure of the supplied function is caught, the item passed on
MapGenSwallow(k, M) ==
  LET p == IterNext(k - 1, M) IN
  IF p.r.kind # "value" THEN p
  ELSE LET f == stages[k].f
           c == Invoked(p.m, k, Throws(f, p.r.value))
       IN IF Throws(f, p.r.value) THEN [m |-> c, r |-> p.r]
          ELSE [m |-> c, r |-> Yield(MapFn(f, p.r.value))]

\* variant: func is called, the item is yielded
MapGenYieldsItem(k, M) ==
  LET p == IterNext(k - 1, M) IN
  IF p.r.kind # "value" THEN p
  ELSE LET f == stages[k].f
           c == Invoked(p.m, k, Throws(f, p.r.value))
       IN IF Throws(f, p.r.value) THEN [m |-> c, r |-> Thrown]
          ELSE [m |-> c, r |-> p.r]

\* variant: the next item is pulled before the mapped one is yielded
MapGenLooksAhead(k, M) ==
  LET p == IterNext(k - 1, M) IN
  IF p.r.kind # "value" THEN p
  ELSE LET f == stages[k].f
           c == Invoked(p.m, k, Throws(f, p.r.value))
           ahead == IterNext(k - 1, c)
       IN IF Throws(f, p.r.value) THEN [m |-> c, r |-> Thrown]
          ELSE [m |-> ahead.m, r |-> Yield(MapFn(f, p.r.value))]

MapGen(k, M) ==
  LET p == IterNext(k - 1, M) IN
  IF p.r.kind # "value" THEN p
  ELSE LET f == stages[k].f
           c == Invoked(p.m, k, Throws(f, p.r.value))
       IN IF Throws(f, p.r.value) THEN [m |-> c, r |-> Thrown]
          ELSE [m |-> c, r |-> Yield(MapFn(f, p.r.value))]

\* variant: the first of the chained iterables is passed over
ChainGenSkipsFirst(k, M) ==
  LET s == M.st[k]
      next == stages[k].srcs
  IN IF s.cur = 0
       THEN LET p == IterNext(k - 1, M) IN
            IF p.r.kind = "done"
              THEN ChainGenSkipsFirst(k, [p.m EXCEPT !.st[k].cur = 2])
              ELSE p
     ELSE IF s.cur > Len(next) THEN [m |-> M, r |-> Done]
     ELSE LET q == SrcNext(next[s.cur], s.subs[s.cur])
              M1 == [M EXCEPT !.st[k].subs[s.cur] = q.s]
          IN IF q.r.kind = "done"
               THEN ChainGenSkipsFirst(k, [M1 EXCEPT !.st[k].cur = @ + 1])
               ELSE [m |-> M1, r |-> q.r]

ChainGen(k, M) ==
  LET s == M.st[k]
      next == stages[k].srcs
  IN IF s.cur = 0
       THEN LET p == IterNext(k - 1, M) IN
            IF p.r.kind = "done"
              THEN ChainGen(k, [p.m EXCEPT !.st[k].cur = 1])
              ELSE p
     ELSE IF s.cur > Len(next) THEN [m |-> M, r |-> Done]
     ELSE LET q == SrcNext(next[s.cur], s.subs[s.cur])
              M1 == [M EXCEPT !.st[k].subs[s.cur] = q.s]
          IN IF q.r.kind = "done"
               THEN ChainGen(k, [M1 EXCEPT !.st[k].cur = @ + 1])
               ELSE [m |-> M1, r |-> q.r]

\* variant: only the left side's exhaustion ends the zip
ZipGenLeftOnly(k, M) ==
  LET leftResult == IterNext(k - 1, M) IN
  IF leftResult.r.kind \in {"throw", "cap"} THEN leftResult
  ELSE LET q == SrcNext(stages[k].srcs[1], leftResult.m.st[k].subs[1])
           M1 == [leftResult.m EXCEPT !.st[k].subs[1] = q.s]
           rightResult == q.r
       IN IF rightResult.kind = "cap" THEN [m |-> M1, r |-> Capped]
          ELSE IF leftResult.r.kind = "done"
            THEN [m |-> M1, r |-> Done]
            ELSE [m |-> M1,
                  r |-> Yield(<<leftResult.r.value, rightResult.value>>)]

\* variant: the right side is pulled first, the left one only if it yields
ZipGenRightFirst(k, M) ==
  LET q == SrcNext(stages[k].srcs[1], M.st[k].subs[1])
      M1 == [M EXCEPT !.st[k].subs[1] = q.s]
  IN IF q.r.kind = "cap" THEN [m |-> M, r |-> Capped]
     ELSE IF q.r.kind = "done" THEN [m |-> M1, r |-> Done]
     ELSE LET leftResult == IterNext(k - 1, M1) IN
          IF leftResult.r.kind # "value" THEN leftResult
          ELSE [m |-> leftResult.m,
                r |-> Yield(<<leftResult.r.value, q.r.value>>)]

\* variant: the right side is not pulled once the left side has ended
ZipGenShortCircuit(k, M) ==
  LET leftResult == IterNext(k - 1, M) IN
  IF leftResult.r.kind \in {"throw", "cap", "done"} THEN leftResult
  ELSE LET q == SrcNext(stages[k].srcs[1], leftResult.m.st[k].subs[1])
           M1 == [leftResult.m EXCEPT !.st[k].subs[1] = q.s]
           rightResult == q.r
       IN IF rightResult.kind = "cap" THEN [m |-> M1, r |-> Capped]
          ELSE IF rightResult.kind = "done"
            THEN [m |-> M1, r |-> Done]
            ELSE [m |-> M1,
                  r |-> Yield(<<leftResult.r.value, rightResult.value>>)]

ZipGen(k, M) ==
  LET leftResult == IterNext(k - 1, M) IN
  IF leftResult.r.kind \in {"throw", "cap"} THEN leftResult
  ELSE LET q == SrcNext(stages[k].srcs[1], leftResult.m.st[k].subs[1])
           M1 == [leftResult.m EXCEPT !.st[k].subs[1] = q.s]
           rightResult == q.r
       IN IF rightResult.kind = "cap" THEN [m |-> M1, r |-> Capped]
          ELSE IF leftResult.r.kind = "done" \/ rightResult.kind = "done"
            THEN [m |-> M1, r |-> Done]
            ELSE [m |-> M1,
                  r |-> Yield(<<leftResult.r.value, rightResult.value>>)]

\* variant: ++index, the first element is numbered 1
EnumerateGenFromOne(k, M) ==
  LET p == IterNext(k - 1, M) IN
  IF p.r.kind # "value" THEN p
  ELSE [m |-> [p.m EXCEPT !.st[k].count = @ + 1],
        r |-> Yield(<<p.m.st[k].count + 1, p.r.value>>)]

EnumerateGen(k, M) ==
  LET p == IterNext(k - 1, M) IN
  IF p.r.kind # "value" THEN p
  ELSE [m |-> [p.m EXCEPT !.st[k].count = @ + 1],
        r |-> Yield(<<p.m.st[k].count, p.r.value>>)]

\* variant: the limit is never compared, so take never stops
TakeGenNoBreak(k, M) ==
  LET p == IterNext(k - 1, M) IN
  IF p.r.kind # "value" THEN p
  ELSE [m |-> [p.m EXCEPT !.st[k].count = @ + 1], r |-> p.r]

TakeGen(k, M) ==
  LET p == IterNext(k - 1, M) IN
  IF p.r.kind # "value" THEN p
  ELSE LET c == [p.m EXCEPT !.st[k].count = @ + 1] IN
       IF c.st[k].count > stages[k].n
         THEN [m |-> c, r |-> Done]
         ELSE [m |-> c, r |-> p.r]

\* variant: ++count < items, one element too few is discarded
SkipGenOffByOne(k, M) ==
  LET p == IterNext(k - 1, M) IN
  IF p.r.kind # "value" THEN p
  ELSE LET c == [p.m EXCEPT !.st[k].count = @ + 1] IN
       IF c.st[k].count < stages[k].n
         THEN SkipGenOffByOne(k, c)
         ELSE [m |-> c, r |-> p.r]

SkipGen(k, M) ==
  LET p == IterNext(k - 1, M) IN
  IF p.r.kind # "value" THEN p
  ELSE LET c == [p.m EXCEPT !.st[k].count = @ + 1] IN
       IF c.st[k].count <= stages[k].n
         THEN SkipGen(k, c)
         ELSE [m |-> c, r |-> p.r]

\* variant: only the first element of each array is yielded
FlatGenFirstOnly(k, M) ==
  LET p == IterNext(k - 1, M) IN
  IF p.r.kind # "value" THEN p
  ELSE IF p.r.value = <<>> THEN FlatGenFirstOnly(k, p.m)
  ELSE [m |-> [p.m EXCEPT !.st[k].held = p.r.value, !.st[k].cur = 1],
        r |-> Yield(p.r.value[1])]

\* for (const item of iter) yield* item: held is the array being yielded
\* from, cur the number of its elements already yielded
FlatGen(k, M) ==
  LET s == M.st[k] IN
  IF s.cur < Len(s.held)
    THEN [m |-> [M EXCEPT !.st[k].cur = @ + 1], r |-> Yield(s.held[s.cur + 1])]
    ELSE LET p == IterNext(k - 1, M) IN
         IF p.r.kind # "value" THEN p
         ELSE FlatGen(k, [p.m EXCEPT !.st[k].held = p.r.value,
                                     !.st[k].cur = 0])

Body(k, M) ==
  LET op == stages[k].op IN
  CASE op = "filter" -> FilterGen(k, M)
    [] op = "filterMap" -> FilterMapGen(k, M)
    [] op = "map" -> MapGen(k, M)
    [] op = "chain" -> ChainGen(k, M)
    [] op = "zip" -> ZipGen(k, M)
    [] op = "enumerate" -> EnumerateGen(k, M)
    [] op = "take" -> TakeGen(k, M)
    [] op = "skip" -> SkipGen(k, M)
    [] op = "flat" -> FlatGen(k, M)

\* variant: a finished generator runs its body again when pulled
IterNextRerun(k, M) ==
  IF k = 0
    THEN LET q == SrcNext(source, M.src)
             M0 == [M EXCEPT !.src = q.s]
         IN [m |-> IF q.r.kind = "value" THEN Logged(M0, "pull", 0) ELSE M0,
             r |-> q.r]
    ELSE LET M1 == [M EXCEPT !.st[k].pulls = @ + 1] IN
         LET b == Body(k, M1) IN
         CASE b.r.kind = "value" ->
                [m |-> Logged([b.m EXCEPT
                                 !.st[k].out = Append(@, b.r.value)],
                              "yield", k),
                 r |-> b.r]
           [] b.r.kind = "cap" -> b
           [] OTHER -> [m |-> [b.m EXCEPT !.st[k].fin = TRUE], r |-> b.r]

\* next() of wrapper k (0 is the wrapper of the raw source): it forwards to
\* its inner iterator, a generator that runs its body unless it has finished
IterNext(k, M) ==
  IF k = 0
    THEN LET q == SrcNext(source, M.src)
             M0 == [M EXCEPT !.src = q.s]
         IN [m |-> IF q.r.kind = "value" THEN Logged(M0, "pull", 0) ELSE M0,
             r |-> q.r]
    ELSE LET M1 == [M EXCEPT !.st[k].pulls = @ + 1] IN
         IF M.st[k].fin THEN [m |-> M1, r |-> Done]
         ELSE LET b == Body(k, M1) IN
              CASE b.r.kind = "value" ->
                     [m |-> Logged([b.m EXCEPT
                                      !.st[k].out = Append(@, b.r.value)],
                                   "yield", k),
                      r |-> b.r]
                [] b.r.kind = "cap" -> b
                [] OTHER -> [m |-> [b.m EXCEPT !.st[k].fin = TRUE], r |-> b.r]

\* ------------------------------------------------------------ AsyncIter
\* the promise an async function returns: it rejects where the function throws
Promise(threw, v) ==
  IF threw THEN [state |-> "rejected", value |-> 0]
           ELSE [state |-> "fulfilled", value |-> v]

RECURSIVE AsyncIterNext(_, _), AsyncFilterGen(_, _), AsyncFilterSyncGen(_, _),
          AsyncFilterMapGen(_, _), AsyncFilterMapSyncGen(_, _),
          AsyncMapGen(_, _), AsyncMapSyncGen(_, _), AsyncChainGen(_, _),
          AsyncZipGen(_, _), AsyncEnumerateGen(_, _), AsyncTakeGen(_, _),
          AsyncSkipGen(_, _), AsyncBody(_, _), AsyncFilterGenNoAwait(_, _)

\* variant: the promise the predicate returns is tested, not its value
AsyncFilterGenNoAwait(k, M) ==
  LET p == AsyncIterNext(k - 1, M) IN
  IF p.r.kind # "value" THEN p
  ELSE LET f == astages[k].f
           c == Invoked(p.m, k, FALSE)
       IN [m |-> c, r |-> p.r]

\* for await (const item of iter) if (await predicate(item)) yield item
AsyncFilterGen(k, M) ==
  LET p == AsyncIterNext(k - 1, M) IN
  IF p.r.kind # "value" THEN p
  ELSE LET f == astages[k].f
           awaited == Promise(Throws(f, p.r.value), Pred(f, p.r.value))
           c == Invoked(p.m, k, awaited.state = "rejected")
       IN IF awaited.state = "rejected" THEN [m |-> c, r |-> Thrown]
          ELSE IF awaited.value THEN [m |-> c, r |-> p.r]
          ELSE AsyncFilterGen(k, c)

AsyncFilterSyncGen(k, M) ==
  LET p == AsyncIterNext(k - 1, M) IN
  IF p.r.kind # "value" THEN p
  ELSE LET f == astages[k].f
           c == Invoked(p.m, k, Throws(f, p.r.value))
       IN IF Throws(f, p.r.value) THEN [m |-> c, r |-> Thrown]
          ELSE IF Pred(f, p.r.value) THEN [m |-> c, r |-> p.r]
          ELSE AsyncFilterSyncGen(k, c)

\* const mapped = await func(item); if (mapped !== undefined) yield mapped
AsyncFilterMapGen(k, M) ==
  LET p == AsyncIterNext(k - 1, M) IN
  IF p.r.kind # "value" THEN p
  ELSE LET f == astages[k].f
           awaited == Promise(Throws(f, p.r.value), FilterMapFn(f, p.r.value))
           c == Invoked(p.m, k, awaited.state = "rejected")
       IN IF awaited.state = "rejected" THEN [m |-> c, r |-> Thrown]
          ELSE IF ~awaited.value.undef
            THEN [m |-> c, r |-> Yield(awaited.value.value)]
            ELSE AsyncFilterMapGen(k, c)

AsyncFilterMapSyncGen(k, M) ==
  LET p == AsyncIterNext(k - 1, M) IN
  IF p.r.kind # "value" THEN p
  ELSE LET f == astages[k].f
           c == Invoked(p.m, k, Throws(f, p.r.value))
           mapped == FilterMapFn(f, p.r.value)
       IN IF Throws(f, p.r.value) THEN [m |-> c, r |-> Thrown]
          ELSE IF ~mapped.undef THEN [m |-> c, r |-> Yield(mapped.value)]
          ELSE AsyncFilterMapSyncGen(k, c)

\* yield await func(item)
AsyncMapGen(k, M) ==
  LET p == AsyncIterNext(k - 1, M) IN
  IF p.r.kind # "value" THEN p
  ELSE LET f == astages[k].f
           awaited == Promise(Throws(f, p.r.value), MapFn(f, p.r.value))
           c == Invoked(p.m, k, awaited.state = "rejected")
       IN IF awaited.state = "rejected" THEN [m |-> c, r |-> Thrown]
          ELSE [m |-> c, r |-> Yield(awaited.value)]

AsyncMapSyncGen(k, M) ==
  LET p == AsyncIterNext(k - 1, M) IN
  IF p.r.kind # "value" THEN p
  ELSE LET f == astages[k].f
           c == Invoked(p.m, k, Throws(f, p.r.value))
       IN IF Throws(f, p.r.value) THEN [m |-> c, r |-> Thrown]
          ELSE [m |-> c, r |-> Yield(MapFn(f, p.r.value))]

AsyncChainGen(k, M) ==
  LET s == M.st[k]
      next == astages[k].srcs
  IN IF s.cur = 0
       THEN LET p == AsyncIterNext(k - 1, M) IN
            IF p.r.kind = "done"
              THEN AsyncChainGen(k, [p.m EXCEPT !.st[k].cur = 1])
              ELSE p
     ELSE IF s.cur > Len(next) THEN [m |-> M, r |-> Done]
     ELSE LET q == SrcNext(next[s.cur], s.subs[s.cur])
              M1 == [M EXCEPT !.st[k].subs[s.cur] = q.s]
          IN IF q.r.kind = "done"
               THEN AsyncChainGen(k, [M1 EXCEPT !.st[k].cur = @ + 1])
               ELSE [m |-> M1, r |-> q.r]

\* await Promise.all([iter.next(), rightIter.next()]): both next() calls are
\* made before either promise is awaited, so the right side is pulled even
\* when the left pull rejects
AsyncZipGen(k, M) ==
  LET leftResult == AsyncIterNext(k - 1, M) IN
  IF leftResult.r.kind = "cap" THEN leftResult
  ELSE LET q == SrcNext(astages[k].srcs[1], leftResult.m.st[k].subs[1])
           M1 == [leftResult.m EXCEPT !.st[k].subs[1] = q.s]
           rightResult == q.r
       IN IF rightResult.kind = "cap" THEN [m |-> M1, r |-> Capped]
          ELSE IF leftResult.r.kind = "throw" THEN [m |-> M1, r |-> Thrown]
          ELSE IF leftResult.r.kind = "done" \/ rightResult.kind = "done"
            THEN [m |-> M1, r |-> Done]
            ELSE [m |-> M1,
                  r |-> Yield(<<leftResult.r.value, rightResult.value>>)]

AsyncEnumerateGen(k, M) ==
  LET p == AsyncIterNext(k - 1, M) IN
  IF p.r.kind # "value" THEN p
  ELSE [m |-> [p.m EXCEPT !.st[k].count = @ + 1],
        r |-> Yield(<<p.m.st[k].count, p.r.value>>)]

AsyncTakeGen(k, M) ==
  LET p == AsyncIterNext(k - 1, M) IN
  IF p.r.kind # "value" THEN p
  ELSE LET c == [p.m EXCEPT !.st[k].count = @ + 1] IN
       IF c.st[k].count > astages[k].n
         THEN [m |-> c, r |-> Done]
         ELSE [m |-> c, r |-> p.r]

AsyncSkipGen(k, M) ==
  LET p == AsyncIterNext(k - 1, M) IN
  IF p.r.kind # "value" THEN p
  ELSE LET c == [p.m EXCEPT !.st[k].count = @ + 1] IN
       IF c.st[k].count <= astages[k].n
         THEN AsyncSkipGen(k, c)
         ELSE [m |-> c, r |-> p.r]

AsyncBody(k, M) ==
  LET op == astages[k].op IN
  CASE op = "filter" -> AsyncFilterGen(k, M)
    [] op = "filterSync" -> AsyncFilterSyncGen(k, M)
    [] op = "filterMap" -> AsyncFilterMapGen(k, M)
    [] op = "filterMapSync" -> AsyncFilterMapSyncGen(k, M)
    [] op = "map" -> AsyncMapGen(k, M)
    [] op = "mapSync" -> AsyncMapSyncGen(k, M)
    [] op = "chain" -> AsyncChainGen(k, M)
    [] op = "zip" -> AsyncZipGen(k, M)
    [] op = "enumerate" -> AsyncEnumerateGen(k, M)
    [] op = "take" -> AsyncTakeGen(k, M)
    [] op = "skip" -> AsyncSkipGen(k, M)

\* AsyncIter.next(), awaited: the settled result of wrapper k's pull
AsyncIterNext(k, M) ==
  IF k = 0
    THEN LET q == SrcNext(source, M.src)
             M0 == [M EXCEPT !.src = q.s]
         IN [m |-> IF q.r.kind = "value" THEN Logged(M0, "pull", 0) ELSE M0,
             r |-> q.r]
    ELSE LET M1 == [M EXCEPT !.st[k].pulls = @ + 1] IN
         IF M.st[k].fin THEN [m |-> M1, r |-> Done]
         ELSE LET b == AsyncBody(k, M1) IN
              CASE b.r.kind = "value" ->
                     [m |-> Logged([b.m EXCEPT
                                      !.st[k].out = Append(@, b.r.value)],
                                   "yield", k),
                      r |-> b.r]
                [] b.r.kind = "cap" -> b
                [] OTHER -> [m |-> [b.m EXCEPT !.st[k].fin = TRUE], r |-> b.r]

\* ------------------------------------------------------------- the chain
Last == Len(stages)

\* the element type the chain yields: "int" or "pair"
ElemType == IF \E k \in 1..Len(stages) : stages[k].op \in {"zip", "enumerate"}
              THEN "pair" ELSE "int"

FiniteSources == {Gen(1, e) : e \in 0..MaxLen}
Sources == FiniteSources \cup {GenFrom(1), Rep("id")}
Counts == 0..MaxN

\* a local holding an array (collect's result) or a number
Local(items, n) == [items |-> items, n |-> n]

\* nothing returned yet; an array is returned in items, a number in n
NoReturn == [set |-> FALSE, items |-> <<>>, n |-> 0]

Returned(op, v) ==
  IF op = "forEach" THEN [set |-> TRUE, items |-> <<>>, n |-> 0]
                    ELSE [set |-> TRUE, items |-> v.items, n |-> v.n]

\* no chains given whole, and no wrapper pulled by hand
NoRun == [law |-> "none", runs |-> <<>>, i |-> 0, res |-> <<>>, direct |-> <<>>]

\* no pull settled and not yet received by the code awaiting it
NoResult == [kind |-> "none", value |-> 0]

\* the chain of AsyncSpec before its terminal operation is called
EvInit ==
  [L |-> [init |-> 0, sett |-> 0, out |-> <<>>, fin |-> FALSE],
   R |-> [init |-> 0, sett |-> 0, out |-> <<>>, fin |-> FALSE],
   lres |-> NoResult, rres |-> NoResult, tres |-> NoResult,
   g |-> "suspended", item |-> 0, count |-> 0,
   call |-> [started |-> 0, settled |-> 0],
   gout |-> <<>>, t |-> "start", yielded |-> <<>>,
   acc |-> Local(<<>>, 0), ret |-> NoReturn]

Init ==
  /\ source \in Sources
  /\ stages = <<>>
  /\ m = [src |-> NewSource, st |-> <<>>, log |-> <<>>]
  /\ pc = "build"
  /\ term = [op |-> "none", f |-> "none"]
  /\ acc = Local(<<>>, 0)
  /\ ret = NoReturn
  /\ astages = <<>>
  /\ am = [src |-> NewSource, st |-> <<>>, log |-> <<>>]
  /\ apc = IF source.kind = "gen" THEN "build" ELSE "none"
  /\ aacc = Local(<<>>, 0)
  /\ aret = NoReturn
  /\ run = NoRun
  /\ ev = EvInit

\* applying a combinator: new Iter(function* (iter) {...}(this)), and the
\* combinator ad of AsyncIter that corresponds to it
Apply(d, ad) ==
  /\ pc = "build"
  /\ Len(stages) < MaxStages
  /\ stages' = Append(stages, d)
  /\ m' = [m EXCEPT !.st = Append(@, NewGen(d))]
  /\ IF apc = "build"
       THEN /\ astages' = Append(astages, ad)
            /\ am' = [am EXCEPT !.st = Append(@, NewGen(ad))]
       ELSE UNCHANGED <<astages, am>>
  /\ UNCHANGED <<source, pc, term, acc, ret, apc, aacc, aret, run, ev>>

Same(op, n, srcs) == Apply(Stage(op, n, "none", srcs), Stage(op, n, "none", srcs))

filter ==
  /\ ElemType = "int"
  /\ \E f \in {"isEven", "boom"}, v \in {"filter", "filterSync"} :
       Apply(Stage("filter", 0, f, <<>>), Stage(v, 0, f, <<>>))
filterMap ==
  /\ ElemType = "int"
  /\ \E f \in {"oddDouble", "boom"}, v \in {"filterMap", "filterMapSync"} :
       Apply(Stage("filterMap", 0, f, <<>>), Stage(v, 0, f, <<>>))
map ==
  /\ ElemType = "int"
  /\ \E f \in {"double", "boom"}, v \in {"map", "mapSync"} :
       Apply(Stage("map", 0, f, <<>>), Stage(v, 0, f, <<>>))
chain ==
  /\ ElemType = "int"
  /\ \E next \in {<<>>, <<Gen(1, 1)>>, <<Gen(1, 0), Gen(MaxLen + 1, MaxLen + 2)>>} :
        Same("chain", 0, next)
zip ==
  /\ ElemType = "int"
  /\ \E right \in {Gen(MaxLen + 1, MaxLen + 1), GenFrom(0)} :
        Same("zip", 0, <<right>>)
enumerate == ElemType = "int" /\ Same("enumerate", 0, <<>>)
take == \E limit \in Counts : Same("take", limit, <<>>)
skip == \E items \in Counts : Same("skip", items, <<>>)

\* a terminal operation is called on the last wrapper (of both chains)
Start(t, initial) ==
  /\ pc = "build"
  /\ pc' = "drain"
  /\ term' = t
  /\ acc' = initial
  /\ IF apc = "build"
       THEN apc' = "drain" /\ aacc' = initial
       ELSE UNCHANGED <<apc, aacc>>
  /\ UNCHANGED <<source, stages, m, ret, astages, am, aret, run, ev>>

collect == Start([op |-> "collect", f |-> "append"], Local(<<>>, 0))
reduce ==
  /\ ElemType = "int"
  /\ \E f \in {"sum", "boom"} : Start([op |-> "reduce", f |-> f], Local(<<>>, 0))
count == Start([op |-> "count", f |-> "none"], Local(<<>>, 0))
forEach ==
  /\ ElemType = "int"
  /\ \E f \in {"noop", "boom"} : Start([op |-> "forEach", f |-> f], Local(<<>>, 0))

\* variant: func is given the initial value, not the previous result
LoopBodyFromInitial(t, a, item) ==
  CASE t.op \in {"collect", "reduce"} -> ReduceFn(t.f, t.initial, item)
    [] t.op = "count" -> [a EXCEPT !.n = @ + 1]
    [] OTHER -> a

\* variant: count += 2
LoopBodyCountsTwice(t, a, item) ==
  CASE t.op \in {"collect", "reduce"} -> ReduceFn(t.f, a, item)
    [] t.op = "count" -> [a EXCEPT !.n = @ + 2]
    [] OTHER -> a

\* the body of the terminal operation's loop, run on one item; forEach's
\* function "tally" is the tests' () => callCount++, keeping the item too
LoopBody(t, a, item) ==
  CASE t.op \in {"collect", "reduce"} -> ReduceFn(t.f, a, item)
    [] t.op = "count" -> [a EXCEPT !.n = @ + 1]
    [] t.op = "forEach" /\ t.f = "tally" ->
         [a EXCEPT !.items = Append(@, item), !.n = @ + 1]
    [] OTHER -> a

\* one turn of for (const item of this) in reduce, count or forEach
Turn(M, t, a) ==
  LET p == IterNext(Len(stages), M) IN
  CASE p.r.kind = "done" ->
         [pc |-> "done", m |-> p.m, acc |-> a, ret |-> Returned(t.op, a)]
    [] p.r.kind = "throw" ->
         [pc |-> "failed", m |-> p.m, acc |-> a, ret |-> NoReturn]
    [] p.r.kind = "cap" ->
         [pc |-> "capped", m |-> M, acc |-> a, ret |-> NoReturn]
    [] p.r.kind = "value" ->
         IF t.op \in {"reduce", "forEach"} /\ Throws(t.f, p.r.value)
           THEN [pc |-> "failed", m |-> p.m, acc |-> a, ret |-> NoReturn]
           ELSE [pc |-> "drain", m |-> p.m,
                 acc |-> LoopBody(t, a, p.r.value), ret |-> NoReturn]

\* one turn of for await (const item of this) in AsyncIter's reduce, count
\* or forEach; the promise resolves when the loop ends and rejects on a throw
AsyncTurn(M, t, a) ==
  LET p == AsyncIterNext(Len(astages), M) IN
  CASE p.r.kind = "done" ->
         [pc |-> "done", m |-> p.m, acc |-> a, ret |-> Returned(t.op, a)]
    [] p.r.kind = "throw" ->
         [pc |-> "failed", m |-> p.m, acc |-> a, ret |-> NoReturn]
    [] p.r.kind = "cap" ->
         [pc |-> "capped", m |-> M, acc |-> a, ret |-> NoReturn]
    [] p.r.kind = "value" ->
         IF t.op \in {"reduce", "forEach"} /\ Throws(t.f, p.r.value)
           THEN [pc |-> "failed", m |-> p.m, acc |-> a, ret |-> NoReturn]
           ELSE [pc |-> "drain", m |-> p.m,
                 acc |-> LoopBody(t, a, p.r.value), ret |-> NoReturn]

\* both chains take the next turn of their terminal operation's loop
Drain ==
  /\ pc = "drain" \/ apc = "drain"
  /\ IF pc = "drain"
       THEN \E x \in {Turn(m, term, acc)} :
            /\ m' = x.m
            /\ pc' = x.pc
            /\ acc' = x.acc
            /\ ret' = x.ret
       ELSE UNCHANGED <<m, pc, acc, ret>>
  /\ IF apc = "drain"
       THEN \E y \in {AsyncTurn(am, term, aacc)} :
            /\ am' = y.m
            /\ apc' = y.pc
            /\ aacc' = y.acc
            /\ aret' = y.ret
       ELSE UNCHANGED <<am, apc, aacc, aret>>
  /\ UNCHANGED <<source, stages, term, astages, run, ev>>

Next ==
  \/ filter \/ filterMap \/ map \/ chain \/ zip \/ enumerate \/ take \/ skip
  \/ collect \/ reduce \/ count \/ forEach
  \/ Drain

Spec == Init /\ [][Next]_vars

\* ------------------------------------------------- AsyncIter, by promise
\* The same AsyncIter code followed one synchronous run at a time: a run
\* starts when a promise it awaits has settled and ends at its next await.
\* The chain is the source, at most one combinator, and a terminal operation.
HasStage == Len(astages) = 1
IsZip == HasStage /\ astages[1].op = "zip"

\* next() reaches the source's async generator: a pull is initiated
PullLeft(e) == [e EXCEPT !.L.init = @ + 1]
PullRight(e) == [e EXCEPT !.R.init = @ + 1]

\* variant: the right pull is not made together with the left one
ZipPullLeftOnly(e) == [PullLeft(e) EXCEPT !.g = "awaitAll"]

\* zip: Promise.all([iter.next(), rightIter.next()]), then await
ZipPull(e) == [PullRight(PullLeft(e)) EXCEPT !.g = "awaitAll"]

\* the generator yields v: its consumer's promise resolves with it
GenYield(e, v) ==
  [e EXCEPT !.g = "suspended", !.gout = Append(@, v), !.tres = Yield(v)]

\* the generator returns (its loop ended or it broke out)
GenReturn(e) == [e EXCEPT !.g = "completed", !.tres = Done]

\* the generator is resumed by next() and runs to its first await
GenStart(e) ==
  IF e.g = "completed" THEN [e EXCEPT !.tres = Done]
  ELSE IF IsZip THEN ZipPull(e)
  ELSE [PullLeft(e) EXCEPT !.g = "awaitNext"]

\* this.next() of the wrapper the terminal operation iterates
LoopPull(e) ==
  [(IF HasStage THEN GenStart(e) ELSE PullLeft(e)) EXCEPT !.t = "awaitNext"]

\* variant: the promise func returns is yielded on without being awaited
OnItemNoAwait(e, v) ==
  LET d == astages[1] IN
  CASE d.op \in {"map", "mapSync"} ->
         GenYield([e EXCEPT !.call.started = @ + 1], MapFn(d.f, v))
    [] d.op \in {"filter", "filterSync"} ->
         IF Pred(d.f, v) THEN GenYield(e, v)
                         ELSE [PullLeft(e) EXCEPT !.g = "awaitNext"]
    [] d.op = "take" ->
         LET c == [e EXCEPT !.count = @ + 1] IN
         IF c.count > d.n THEN GenReturn(c) ELSE GenYield(c, v)
    [] d.op = "skip" ->
         LET c == [e EXCEPT !.count = @ + 1] IN
         IF c.count <= d.n THEN [PullLeft(c) EXCEPT !.g = "awaitNext"]
                           ELSE GenYield(c, v)

\* the body of a combinator's for await loop, from the item to its next await
OnItem(e, v) ==
  LET d == astages[1] IN
  CASE d.op \in {"map", "filter"} ->
         [e EXCEPT !.call.started = @ + 1, !.item = v, !.g = "awaitCall"]
    [] d.op = "mapSync" -> GenYield(e, MapFn(d.f, v))
    [] d.op = "filterSync" ->
         IF Pred(d.f, v) THEN GenYield(e, v)
                         ELSE [PullLeft(e) EXCEPT !.g = "awaitNext"]
    [] d.op = "take" ->
         LET c == [e EXCEPT !.count = @ + 1] IN
         IF c.count > d.n THEN GenReturn(c) ELSE GenYield(c, v)
    [] d.op = "skip" ->
         LET c == [e EXCEPT !.count = @ + 1] IN
         IF c.count <= d.n THEN [PullLeft(c) EXCEPT !.g = "awaitNext"]
                           ELSE GenYield(c, v)

\* the i-th pull of an async sequentialIntegers settles
Settled(d, s) ==
  LET i == d.lo + s.sett IN
  IF ~s.fin /\ i <= d.hi
    THEN [s |-> [s EXCEPT !.sett = @ + 1, !.out = Append(@, i)], r |-> Yield(i)]
    ELSE [s |-> [s EXCEPT !.sett = @ + 1, !.fin = TRUE], r |-> Done]

EvStages ==
  {Stage(op, 0, "double", <<>>) : op \in {"map", "mapSync"}}
    \cup {Stage(op, 0, "isEven", <<>>) : op \in {"filter", "filterSync"}}
    \cup {Stage(op, n, "none", <<>>) : op \in {"take", "skip"}, n \in Counts}
    \cup {Stage("zip", 0, "none", <<Gen(MaxLen + 1, hi)>>) :
            hi \in {MaxLen + 1, 2 * MaxLen + 1}}

AsyncInit ==
  /\ source \in FiniteSources
  /\ astages \in {<<>>} \cup {<<d>> : d \in EvStages}
  /\ term \in {[op |-> "collect", f |-> "append"], [op |-> "count", f |-> "none"],
               [op |-> "forEach", f |-> "noop"], [op |-> "reduce", f |-> "sum"]}
  /\ term.op \in {"reduce", "forEach"} => ~IsZip
  /\ stages = <<>>
  /\ m = [src |-> NewSource, st |-> <<>>, log |-> <<>>]
  /\ am = [src |-> NewSource, st |-> <<>>, log |-> <<>>]
  /\ pc = "none" /\ apc = "events"
  /\ acc = Local(<<>>, 0) /\ aacc = Local(<<>>, 0)
  /\ ret = NoReturn /\ aret = NoReturn
  /\ run = NoRun
  /\ ev = EvInit

\* collect, reduce, count or forEach is called: it runs to its first await
EvStart ==
  /\ apc = "events" /\ ev.t = "start"
  /\ ev' = LoopPull(ev)
  /\ UNCHANGED chainVars

\* a pending pull on the source settles
SettleLeft ==
  /\ apc = "events"
  /\ ev.L.init > ev.L.sett /\ ev.lres.kind = "none"
  /\ \E x \in {Settled(source, ev.L)} :
       ev' = [ev EXCEPT !.L = x.s, !.lres = x.r]
  /\ UNCHANGED chainVars

\* a pending pull on zip's right side settles
SettleRight ==
  /\ apc = "events"
  /\ ev.R.init > ev.R.sett /\ ev.rres.kind = "none"
  /\ \E x \in {Settled(astages[1].srcs[1], ev.R)} :
       ev' = [ev EXCEPT !.R = x.s, !.rres = x.r]
  /\ UNCHANGED chainVars

\* a combinator's for await loop receives the settled pull
GenResume ==
  /\ apc = "events" /\ HasStage /\ ~IsZip
  /\ ev.g = "awaitNext" /\ ev.lres.kind # "none"
  /\ \E e \in {[ev EXCEPT !.lres = NoResult]} :
       ev' = IF ev.lres.kind = "done" THEN GenReturn(e)
                                      ELSE OnItem(e, ev.lres.value)
  /\ UNCHANGED chainVars

\* the promise of the supplied function settles and the generator goes on
CallSettles ==
  /\ apc = "events" /\ HasStage
  /\ ev.g = "awaitCall"
  /\ \E e \in {[ev EXCEPT !.call.settled = @ + 1]} :
       ev' = IF astages[1].op = "map"
               THEN GenYield(e, MapFn(astages[1].f, e.item))
               ELSE IF Pred(astages[1].f, e.item)
                 THEN GenYield(e, e.item)
                 ELSE [PullLeft(e) EXCEPT !.g = "awaitNext"]
  /\ UNCHANGED chainVars

\* Promise.all has both results: zip ends or yields the pair
ZipJoin ==
  /\ apc = "events" /\ IsZip
  /\ ev.g = "awaitAll" /\ ev.lres.kind # "none" /\ ev.rres.kind # "none"
  /\ \E e \in {[ev EXCEPT !.lres = NoResult, !.rres = NoResult]} :
       ev' = IF ev.lres.kind = "done" \/ ev.rres.kind = "done"
               THEN GenReturn(e)
               ELSE GenYield(e, <<ev.lres.value, ev.rres.value>>)
  /\ UNCHANGED chainVars

\* the terminal operation's for await loop receives the next result
LoopResume ==
  /\ apc = "events" /\ ev.t = "awaitNext"
  /\ \E r \in {IF HasStage THEN ev.tres ELSE ev.lres} :
       /\ r.kind # "none"
       /\ \E e \in {[ev EXCEPT !.tres = NoResult,
                               !.lres = IF HasStage THEN @ ELSE NoResult]} :
            ev' = IF r.kind = "done"
                    THEN [e EXCEPT !.t = "resolved",
                                   !.ret = Returned(term.op, e.acc)]
                    ELSE LoopPull([e EXCEPT
                           !.yielded = Append(@, r.value),
                           !.acc = LoopBody(term, @, r.value)])
  /\ UNCHANGED chainVars

AsyncNext ==
  \/ EvStart \/ SettleLeft \/ SettleRight \/ GenResume \/ CallSettles
  \/ ZipJoin \/ LoopResume

AsyncSpec == AsyncInit /\ [][AsyncNext]_vars

\* ---------------------------------------------------------- observations
\* what wrapper k has yielded, how often it was pulled, whether it has ended
Out(k) == IF k = 0 THEN m.src.out ELSE m.st[k].out
Pulls(k) == IF k = 0 THEN m.src.pulls ELSE m.st[k].pulls
Fin(k) == IF k = 0 THEN m.src.fin ELSE m.st[k].fin

\* a supplied function of stages 1..k has thrown
ThrewUpTo(k) == \E j \in 1..k : m.st[j].threw

\* the elements sequentialIntegers(lo, hi) yields
SrcItems(d) == [i \in 1..(d.hi - d.lo + 1) |-> d.lo + i - 1]

Drop(n, s) == SubSeq(s, n + 1, Len(s))
First(n, s) == SubSeq(s, 1, IF n < Len(s) THEN n ELSE Len(s))
Min(a, b) == IF a < b THEN a ELSE b

StagesOf(op) == {k \in 1..Len(stages) : stages[k].op = op}

\* ------------------------------------------------ chains drained whole
\* Chains written in one expression, source.op1(...).op2(...).terminal(),
\* and evaluated one after another on a fresh source each; both the Iter
\* and, where AsyncIter has the operations, the AsyncIter chain are run.
RunStages ==
  {Stage("filter", 0, "isEven", <<>>), Stage("filterMap", 0, "oddDouble", <<>>),
   Stage("map", 0, "double", <<>>), Stage("enumerate", 0, "none", <<>>),
   Stage("chain", 0, "none", <<Gen(1, 1)>>),
   Stage("zip", 0, "none", <<Gen(MaxLen + 1, MaxLen + 1)>>),
   Stage("zip", 0, "none", <<GenFrom(0)>>)}
    \cup {Stage(op, n, "none", <<>>) : op \in {"take", "skip"}, n \in Counts}

\* zip and enumerate yield pairs, which only take and skip pass on unread
WellTyped(c) ==
  \A k \in 1..Len(c) :
    (\E j \in 1..(k - 1) : c[j].op \in {"zip", "enumerate"})
      => c[k].op \in {"take", "skip"}

Chains ==
  {c \in UNION {[1..n -> RunStages] : n \in 0..MaxStages} : WellTyped(c)}

\* c.op(f, initial): a terminal operation called on the chain c
OneRun(c, op, f, initial) ==
  [stages |-> c,
   term |-> [op |-> op, f |-> f, initial |-> Local(<<>>, initial)]]

Collect(c) == OneRun(c, "collect", "append", 0)

\* the chain is drained, and its last wrapper is pulled again afterwards
Again == {[law |-> "again", runs |-> <<Collect(c)>>] : c \in Chains}

\* the last element of the tests' sequentialIntegers(start = 1, end = 10)
TestEnd == 10

\* the chains of sync.test.ts over sequentialIntegers(1, 10)
Tests ==
  {[law |-> "tests",
    runs |-> <<Collect(<<>>),
               OneRun(<<>>, "reduce", "product", 1),
               Collect(<<Stage("filter", 0, "isEven", <<>>)>>),
               Collect(<<Stage("map", 0, "double", <<>>)>>),
               Collect(<<Stage("filterMap", 0, "oddDouble", <<>>)>>),
               Collect(<<Stage("enumerate", 0, "none", <<>>)>>),
               Collect(<<Stage("skip", TestEnd \div 2, "none", <<>>)>>),
               OneRun(<<>>, "count", "none", 0),
               OneRun(<<>>, "forEach", "tally", 0)>>]}

\* filter(p1).filter(p2), then filter((x) => p1(x) && p2(x))
Filters ==
  {[law |-> "filters",
    runs |-> <<Collect(<<Stage("filter", 0, p1, <<>>),
                         Stage("filter", 0, p2, <<>>)>>),
               Collect(<<Stage("filter", 0, Both(p1, p2), <<>>)>>)>>] :
     p1 \in Preds, p2 \in Preds}

\* map(f).map(g), then map((x) => g(f(x)))
Maps ==
  {[law |-> "maps",
    runs |-> <<Collect(<<Stage("map", 0, f, <<>>), Stage("map", 0, g, <<>>)>>),
               Collect(<<Stage("map", 0, Then(f, g), <<>>)>>)>>] :
     f \in Fns, g \in Fns}

\* reduce(f, initial) on a chain
Folds ==
  {[law |-> "folds", runs |-> <<OneRun(c, "reduce", f, initial)>>] :
     c \in {<<>>, <<Stage("filter", 0, "isOdd", <<>>)>>,
            <<Stage("map", 0, "inc", <<>>)>>},
     f \in {"product", "shift"}, initial \in 0..MaxLen}

\* collect, count and forEach on the same chain
Same3 ==
  {[law |-> "same",
    runs |-> <<Collect(c), OneRun(c, "count", "none", 0),
               OneRun(c, "forEach", "tally", 0)>>] : c \in Chains}

\* flat() of a sequence of arrays, after take (as the test has it) or
\* before it
Flats ==
  {[law |-> "flats", runs |-> <<Collect(c)>>] :
     c \in {<<Stage("take", n, "none", <<>>), Stage("flat", 0, "none", <<>>)>> :
              n \in 0..(MaxN + 1)}
         \cup {<<Stage("flat", 0, "none", <<>>), Stage("take", n, "none", <<>>)>> :
                 n \in 0..(MaxN + 1)}}

\* chains of three of map, filter and filterMap, or two and enumerate
FlowStages ==
  {Stage("map", 0, "inc", <<>>), Stage("filter", 0, "isOdd", <<>>),
   Stage("filterMap", 0, "oddDouble", <<>>)}

Flows ==
  {[law |-> "flows", runs |-> <<Collect(c)>>] :
     c \in [1..3 -> FlowStages]
         \cup {Append(c2, Stage("enumerate", 0, "none", <<>>)) :
                 c2 \in [1..2 -> FlowStages]}}

Laws ==
  Again \cup Tests \cup Filters \cup Maps \cup Folds \cup Same3 \cup Flats
    \cup Flows

LawSources(L) ==
  CASE L.law = "again" -> Sources \cup {Rep("square")}
    [] L.law = "tests" -> {Gen(1, TestEnd)}
    [] L.law = "same" -> FiniteSources
    [] L.law = "flats" -> {Rep("pair"), Rep("upto"), Rep("nested")}
    [] OTHER -> FiniteSources \cup {Gen(1, TestEnd)}

\* a new source and new generators, none of them started
FreshM(c) ==
  [src |-> NewSource, st |-> [k \in 1..Len(c) |-> NewGen(c[k])], log |-> <<>>]

\* AsyncIter has every operation of the chain (all but repeatWith and flat)
HasAsync(src, c) ==
  src.kind = "gen" /\ \A k \in 1..Len(c) : c[k].op # "flat"

RunInit ==
  /\ \E L \in Laws :
       /\ run = [NoRun EXCEPT !.law = L.law, !.runs = L.runs, !.i = 1]
       /\ source \in LawSources(L)
  /\ stages = run.runs[1].stages
  /\ term = run.runs[1].term
  /\ m = FreshM(stages)
  /\ pc = "drain"
  /\ acc = term.initial
  /\ ret = NoReturn
  /\ astages = IF HasAsync(source, stages) THEN stages ELSE <<>>
  /\ am = FreshM(astages)
  /\ apc = IF HasAsync(source, stages) THEN "drain" ELSE "none"
  /\ aacc = term.initial
  /\ aret = NoReturn
  /\ ev = EvInit

\* next() is called on the last wrapper after the terminal operation returned
PullAgain ==
  /\ pc = "done"
  /\ Pulls(Last) < Len(Out(Last)) + 1 + MaxExtra
  /\ \E x \in {IterNext(Last, m)} : m' = x.m
  /\ IF apc = "done"
       THEN \E y \in {AsyncIterNext(Len(astages), am)} : am' = y.m
       ELSE UNCHANGED am
  /\ UNCHANGED <<source, stages, pc, term, acc, ret, astages, apc, aacc,
                 aret, run, ev>>

\* the next chain is written and its terminal operation called
NextRun ==
  /\ pc \in {"done", "failed"}
  /\ run.i < Len(run.runs)
  /\ run' = [run EXCEPT !.i = @ + 1,
                        !.res = Append(@, [pc |-> pc, ret |-> ret, acc |-> acc,
                                           out |-> Out(Last)])]
  /\ \E r \in {run.runs[run.i + 1]} :
       /\ stages' = r.stages
       /\ term' = r.term
       /\ m' = FreshM(r.stages)
       /\ astages' = IF HasAsync(source, r.stages) THEN r.stages ELSE <<>>
       /\ am' = FreshM(astages')
       /\ apc' = IF HasAsync(source, r.stages) THEN "drain" ELSE "none"
  /\ pc' = "drain"
  /\ acc' = term'.initial /\ aacc' = term'.initial
  /\ ret' = NoReturn /\ aret' = NoReturn
  /\ UNCHANGED <<source, ev>>

RunNext == Drain \/ PullAgain \/ NextRun

RunSpec == RunInit /\ [][RunNext]_vars

\* ---------------------------------------------------- one wrapper, twice
\* One wrapper is pulled by hand, by next() or by a for..of loop left in its
\* first turn; then a terminal operation is called on it, and called once
\* more when it has returned. Iter and AsyncIter are taken in step. The
\* tests' new Iter(sequentialIntegers()) is one of the wrappers.
PassChains == {c \in Chains : Len(c) <= 1} \cup [1..2 -> FlowStages]

PassRuns ==
  {OneRun(c, "collect", "append", 0) : c \in PassChains}
    \cup {OneRun(c, "count", "none", 0) : c \in PassChains}
    \cup {OneRun(c, "forEach", "tally", 0) : c \in PassChains}
    \cup {OneRun(c, "reduce", "shift", 1) :
            c \in {c1 \in PassChains :
                     \A k \in 1..Len(c1) : c1[k].op \notin {"zip", "enumerate"}}}

\* variant: [Symbol.iterator]() returns a wrapper that starts over
SymbolIteratorFresh(M) == FreshM(stages)

\* [Symbol.iterator]() { return this; }
SymbolIterator(M) == M

\* [Symbol.asyncIterator]() { return this; }
SymbolAsyncIterator(M) == M

PassInit ==
  /\ \E r \in PassRuns :
       run = [NoRun EXCEPT !.law = "pass", !.runs = <<r>>, !.i = 1]
  /\ stages = run.runs[1].stages
  /\ source \in FiniteSources
                  \cup (IF stages = <<>> THEN {Gen(1, TestEnd)} ELSE {})
  /\ term = run.runs[1].term
  /\ m = FreshM(stages)
  /\ pc = "pull"
  /\ acc = term.initial
  /\ ret = NoReturn
  /\ astages = stages
  /\ am = FreshM(astages)
  /\ apc = "pull"
  /\ aacc = term.initial
  /\ aret = NoReturn
  /\ ev = EvInit

\* wrapper.next(), and await wrapper.next() of AsyncIter, the results kept
DirectNext ==
  /\ pc = "pull"
  /\ Len(run.direct) <= MaxLen
  /\ \E x \in {IterNext(Last, m)}, y \in {AsyncIterNext(Len(astages), am)} :
       /\ m' = x.m
       /\ am' = y.m
       /\ run' = [run EXCEPT
                    !.direct = Append(@, [by |-> "next", r |-> x.r, ar |-> y.r])]
  /\ UNCHANGED <<source, stages, pc, term, acc, ret, astages, apc, aacc, aret,
                 ev>>

\* for (const item of wrapper) { break; } and its for await: the loop asks
\* the wrapper for its iterator and pulls that once; the wrappers have no
\* return() for the loop to call when it is left
ForOfBreak ==
  /\ pc = "pull"
  /\ Len(run.direct) <= MaxLen
  /\ \E x \in {IterNext(Last, SymbolIterator(m))},
        y \in {AsyncIterNext(Len(astages), SymbolAsyncIterator(am))} :
       /\ m' = x.m
       /\ am' = y.m
       /\ run' = [run EXCEPT
                    !.direct = Append(@, [by |-> "for", r |-> x.r, ar |-> y.r])]
  /\ UNCHANGED <<source, stages, pc, term, acc, ret, astages, apc, aacc, aret,
                 ev>>

\* the terminal operation is called on the wrapper
Call ==
  /\ pc = "pull"
  /\ pc' = "drain"
  /\ apc' = "drain"
  /\ UNCHANGED <<source, stages, m, term, acc, ret, astages, am, aacc, aret,
                 run, ev>>

\* the terminal operation has returned and is called on the same wrapper
\* again; what it returned the first time is kept
CallAgain ==
  /\ pc = "done" /\ apc = "done"
  /\ run.res = <<>>
  /\ run' = [run EXCEPT
               !.res = Append(@, [ret |-> ret, acc |-> acc, aret |-> aret,
                                  aacc |-> aacc, out |-> Out(Last),
                                  out0 |-> Out(0)])]
  /\ pc' = "drain"
  /\ apc' = "drain"
  /\ acc' = term.initial
  /\ aacc' = term.initial
  /\ ret' = NoReturn
  /\ aret' = NoReturn
  /\ UNCHANGED <<source, stages, m, term, astages, am, ev>>

PassNext == DirectNext \/ ForOfBreak \/ Call \/ Drain \/ CallAgain

PassSpec == PassInit /\ [][PassNext]_vars

\* ------------------------------------------------------------------- C1
\* C1 (as claimed): take(limit) yields at most limit elements and never
\* consumes more than limit elements of its parent: it pulls the parent at
\* most limit times, so the parent's (limit+1)-th element is left unconsumed.
C1_TakeLeavesRest ==
  \A k \in StagesOf("take") :
    /\ Len(Out(k)) <= stages[k].n
    /\ Len(Out(k - 1)) <= stages[k].n

\* ------------------------------------------------------------------- C2
\* C2: draining a take(k) whose parent is infinite terminates: every turn of
\* the terminal operation's loop but the last yields one element, the next
\* turn always yields or ends, and the (k+1)-th turn ends it; the operation
\* then returns, take having yielded exactly k elements, the parent's first k
\* in order (none when k = 0), which collect returns and count counts.
InfiniteStage(d) ==
  /\ d.f # "boom"
  /\ \/ d.op \in {"map", "enumerate", "skip", "chain"}
     \/ d.op = "zip" /\ d.srcs[1].unbounded

TakeOfInfinite ==
  /\ Last >= 1
  /\ stages[Last].op = "take"
  /\ source.unbounded
  /\ \A j \in 1..(Last - 1) : InfiniteStage(stages[j])

TakeDrained ==
  /\ TakeOfInfinite
  /\ pc = "done"
  /\ Len(Out(Last)) = stages[Last].n
  /\ Out(Last) = First(stages[Last].n, Out(Last - 1))
  /\ ret.set
  /\ term.op = "collect" => ret.items = Out(Last)
  /\ term.op = "count" => ret.n = stages[Last].n

C2_TakeTerminates ==
  TakeOfInfinite /\ term.f # "boom" =>
    /\ pc \in {"build", "drain", "done"}
    /\ Pulls(Last) <= stages[Last].n + 1
    /\ pc = "drain" => /\ Pulls(Last) <= stages[Last].n
                       /\ Len(Out(Last)) = Pulls(Last)
                       /\ Turn(m, term, acc).pc \in {"drain", "done"}
    /\ Pulls(Last) = stages[Last].n + 1 => pc = "done"
    /\ pc = "done" => TakeDrained

C2_Witness ==
  /\ TakeDrained
  /\ Len(stages) = 2 /\ stages[1].op = "skip" /\ stages[1].n = 1
  /\ stages[2].n = 1
  /\ source = Rep("id")
  /\ term.op = "collect" /\ ret.items = <<1>>

\* ------------------------------------------------------------------- C3
\* C3: left.zip(right) yields (left_i, right_i) as its i-th pair, and once it
\* has reported exhaustion it has yielded exactly min(m, n) pairs, m and n
\* being the lengths of the two sides (either may be infinite).
ZipLen(l, r) ==
  IF l.unbounded THEN Len(SrcItems(r))
  ELSE IF r.unbounded THEN Len(SrcItems(l))
  ELSE Min(Len(SrcItems(l)), Len(SrcItems(r)))

C3_ZipPairs ==
  \A k \in StagesOf("zip") :
    LET right == m.st[k].subs[1].out IN
    /\ Len(Out(k)) <= Min(Len(Out(k - 1)), Len(right))
    /\ \A i \in 1..Len(Out(k)) : Out(k)[i] = <<Out(k - 1)[i], right[i]>>
    /\ Fin(k) /\ ~ThrewUpTo(k) =>
         /\ Len(Out(k)) = Min(Len(Out(k - 1)), Len(right))
         /\ Fin(k - 1) \/ m.st[k].subs[1].fin
         /\ k = 1 => Len(Out(k)) = ZipLen(source, stages[k].srcs[1])

C3_Witness ==
  /\ pc = "done"
  /\ Len(stages) = 1 /\ stages[1].op = "zip"
  /\ source = Gen(1, 2) /\ stages[1].srcs[1] = Gen(MaxLen + 1, MaxLen + 1)
  /\ Out(1) = << <<1, MaxLen + 1>> >>

\* ------------------------------------------------------------------- C4
\* C4: receiver.chain(o1, ..., ok) has at every moment yielded the receiver's
\* elements followed by those of o1, ..., ok; o1 is not pulled before the
\* receiver has reported exhaustion, o(i+1) not before o(i) has; and once the
\* chain has reported exhaustion it has yielded all of them.
RECURSIVE Concat(_)
Concat(ss) == IF ss = <<>> THEN <<>> ELSE Head(ss) \o Concat(Tail(ss))

C4_ChainOrder ==
  \A k \in StagesOf("chain") :
    LET subs == m.st[k].subs
        next == stages[k].srcs
    IN
    /\ Out(k) = Out(k - 1) \o Concat([j \in 1..Len(subs) |-> subs[j].out])
    /\ \A j \in 1..Len(subs) :
         subs[j].pulls > 0 =>
           /\ Fin(k - 1)
           /\ \A i \in 1..(j - 1) : subs[i].fin
    /\ Fin(k) /\ ~ThrewUpTo(k) =>
         /\ Fin(k - 1)
         /\ \A j \in 1..Len(subs) : subs[j].out = SrcItems(next[j])

C4_Witness ==
  /\ pc = "done"
  /\ Len(stages) = 1 /\ stages[1].op = "chain" /\ Len(stages[1].srcs) = 2
  /\ source = Gen(1, 2)
  /\ Out(1) = <<1, 2, MaxLen + 1, MaxLen + 2>>

\* ------------------------------------------------------------------- C5
\* C5: combinators are lazy: while combinators are being applied nothing has
\* been pulled and no supplied function has been invoked, and nothing is
\* pulled or invoked before the last wrapper of the chain has been pulled.
Untouched(k) ==
  /\ m.st[k].pulls = 0
  /\ m.st[k].calls = 0
  /\ \A j \in 1..Len(m.st[k].subs) : m.st[k].subs[j].pulls = 0

C5_Lazy ==
  (pc = "build" \/ Pulls(Last) = 0) =>
    /\ m.src.pulls = 0
    /\ \A k \in 1..Len(stages) : Untouched(k)

C5_Witness ==
  /\ pc = "drain"
  /\ Len(stages) = 2 /\ stages[1].op = "map" /\ stages[2].op = "zip"
  /\ Pulls(Last) = 0

\* ------------------------------------------------------------------- C6
\* C6: when a function supplied to map, filter, filterMap, reduce or forEach
\* throws while a terminal operation drains the chain, the operation ends
\* with that failure and returns nothing; the item the function failed on is
\* the last one produced for it, and every generator from the failing stage
\* on has ended, so the chain produces no further element.
Has(s, x) == \E i \in 1..Len(s) : s[i] = x
EndsAtFirst(s, x) == Len(s) > 0 /\ s[Len(s)] = x /\ ~Has(SubSeq(s, 1, Len(s) - 1), x)

TermThrew ==
  /\ term.op \in {"reduce", "forEach"}
  /\ term.f = "boom"
  /\ Has(Out(Last), BoomAt)

C6_FailurePropagates ==
  /\ (ThrewUpTo(Last) \/ TermThrew) <=> pc = "failed"
  /\ pc = "failed" => ~ret.set
  /\ TermThrew => EndsAtFirst(Out(Last), BoomAt)
  /\ \A j \in 1..Len(stages) :
       m.st[j].threw =>
         /\ EndsAtFirst(Out(j - 1), BoomAt)
         /\ m.st[j].calls = Len(Out(j - 1))
         /\ \A i \in j..Len(stages) : Fin(i)
         /\ \A i \in (j + 1)..Len(stages) : ~m.st[i].threw

C6_Witness ==
  /\ pc = "failed"
  /\ Len(stages) = 2 /\ stages[1].op = "map" /\ m.st[1].threw
  /\ stages[2].op = "filter"
  /\ term.op = "collect" /\ acc.items = <<1>>

\* ------------------------------------------------------------------- C7
\* C7: over a finite source the AsyncIter chain, built with either variant of
\* filter, filterMap and map, has at every turn yielded what the Iter chain
\* has, stage by stage; its terminal operation settles when Iter's returns
\* or throws, and collect, reduce and count resolve to what Iter returns.
C7_SyncAsyncAgree ==
  apc # "none" /\ ~source.unbounded =>
    /\ apc = pc
    /\ Len(astages) = Len(stages)
    /\ \A k \in 1..Len(stages) : am.st[k].out = m.st[k].out
    /\ aacc = acc
    /\ aret = ret

C7_Witness ==
  /\ pc = "done" /\ apc = "done"
  /\ source = Gen(1, 2)
  /\ Len(astages) = 2
  /\ astages[1].op = "filter" /\ astages[1].f = "isEven"
  /\ astages[2].op = "mapSync" /\ astages[2].f = "double"
  /\ term.op = "collect" /\ aret.items = <<4>>

\* ------------------------------------------------------------------- C8
\* C8: in AsyncIter.zip the two pulls of a step are initiated together, at
\* most one pull per side is pending, a pair is yielded only when both pulls
\* of its step have settled and is (left value, right value) in whichever
\* order they settled, and the pulls of the next step are initiated only
\* after both pulls of this step have settled and its pair has been yielded.
C8_ZipJoins ==
  IsZip =>
    /\ ev.L.init = ev.R.init
    /\ ev.L.init - ev.L.sett <= 1 /\ ev.R.init - ev.R.sett <= 1
    /\ Len(ev.gout) <= Min(ev.L.sett, ev.R.sett)
    /\ \A i \in 1..Len(ev.gout) : ev.gout[i] = <<ev.L.out[i], ev.R.out[i]>>
    /\ ev.L.init <= Min(ev.L.sett, ev.R.sett) + 1
    /\ ev.L.init <= Len(ev.gout) + 1

\* the right pull of the second step has settled, the left one is pending
C8_Witness ==
  /\ IsZip
  /\ Len(ev.gout) = 1 /\ ev.L.init = 2
  /\ ev.rres.kind = "value" /\ ev.lres.kind = "none" /\ ev.L.sett = 1

\* ------------------------------------------------------------------- C9
\* C9: while an async terminal operation drains a chain without zip, at most
\* one pull on the source is pending and at most one call of the supplied
\* function is unsettled, the function is called only on items whose pull
\* has settled, the terminal operation's own function has run on every item
\* received so far, and the operation's promise resolves only when nothing
\* is pending and the source has reported exhaustion or take has broken off.
C9_OneAtATime ==
  apc = "events" /\ ~IsZip =>
    /\ ev.L.init - ev.L.sett <= 1
    /\ ev.call.started - ev.call.settled <= 1
    /\ ev.call.started <= Len(ev.L.out)
    /\ term.op = "collect" => ev.acc.items = ev.yielded
    /\ term.op = "count" => ev.acc.n = Len(ev.yielded)
    /\ ev.t = "resolved" =>
         /\ ev.ret.set
         /\ ev.L.init = ev.L.sett
         /\ ev.call.started = ev.call.settled
         /\ \/ ev.L.fin
            \/ HasStage /\ astages[1].op = "take" /\ ev.g = "completed"
                 /\ ev.count > astages[1].n

C9_Witness ==
  /\ apc = "events" /\ HasStage /\ astages[1].op = "map"
  /\ ev.t = "resolved"
  /\ ev.call.settled = 2
  /\ term.op = "collect" /\ ev.ret.items = <<2, 4>>

\* ------------------------------------------------------------------ C10
\* C10: skip(n) has at every moment yielded its parent's output without the
\* first n elements, so those n followed by skip's output are the parent's
\* output; it pulls the parent once per element (and once more to learn of
\* exhaustion), and when it reports exhaustion the parent has.
C10_Skip ==
  \A k \in StagesOf("skip") :
    /\ Out(k) = Drop(stages[k].n, Out(k - 1))
    /\ First(stages[k].n, Out(k - 1)) \o Out(k) = Out(k - 1)
    /\ Pulls(k - 1) = Len(Out(k - 1)) + (IF Fin(k) THEN 1 ELSE 0)
    /\ Fin(k) /\ ~ThrewUpTo(k) => Fin(k - 1)

C10_Witness ==
  /\ pc = "done"
  /\ Len(stages) = 1 /\ stages[1] = Stage("skip", 1, "none", <<>>)
  /\ source = Gen(1, 2)
  /\ Out(1) = <<2>> /\ Pulls(0) = 3

\* ------------------------------------------------------------------ C11
\* C11: a wrapper made by a combinator of Iter or AsyncIter that has reported
\* exhaustion reports exhaustion at every later pull, and that pull changes
\* nothing but the count of pulls on the wrapper itself: no parent, no side
\* of a zip and no chained iterable is pulled and no function is invoked,
\* whatever the parents would yield.
AsyncExhausted(k) ==
  am.st[k].fin =>
    \E y \in {AsyncIterNext(k, am)} :
      y.r = Done /\ y.m = [am EXCEPT !.st[k].pulls = @ + 1]

C11_ExhaustedStays ==
  /\ \A k \in 1..Len(stages) :
       Fin(k) =>
         \E x \in {IterNext(k, m)} :
           x.r = Done /\ x.m = [m EXCEPT !.st[k].pulls = @ + 1]
  /\ \A k \in 1..Len(astages) : AsyncExhausted(k)

\* take(1) of repeatWith was pulled again after collect returned
C11_Witness ==
  /\ pc = "done"
  /\ source = Rep("id")
  /\ Len(stages) = 1 /\ stages[1] = Stage("take", 1, "none", <<>>)
  /\ Out(1) = <<0>> /\ Pulls(1) = 2 + MaxExtra
  /\ m.src.pulls = 2

\* ------------------------------------------------------------------ C12
\* C12: filterMap(f), of Iter and of AsyncIter, has invoked f once on each
\* item it pulled and has yielded, in the parent's order, f(item) for those
\* items where f(item) is not undefined; over 1..10 with f(x) undefined for
\* even x and 2x otherwise, collect returns [2, 6, 10, 14, 18].
RECURSIVE FilterMapped(_, _)
FilterMapped(f, s) ==
  IF s = <<>> THEN <<>>
  ELSE LET mapped == FilterMapFn(f, Head(s)) IN
       (IF mapped.undef THEN <<>> ELSE <<mapped.value>>)
         \o FilterMapped(f, Tail(s))

FilterMapTest ==
  /\ run.law = "tests"
  /\ stages = <<Stage("filterMap", 0, "oddDouble", <<>>)>>
  /\ pc = "done"

C12_FilterMap ==
  /\ \A k \in StagesOf("filterMap") :
       /\ m.st[k].calls = Len(Out(k - 1))
       /\ Out(k) = FilterMapped(stages[k].f, Out(k - 1))
  /\ \A k \in 1..Len(astages) :
       astages[k].op = "filterMap" =>
         /\ am.st[k].calls = Len(IF k = 1 THEN am.src.out ELSE am.st[k - 1].out)
         /\ am.st[k].out =
              FilterMapped(astages[k].f,
                           IF k = 1 THEN am.src.out ELSE am.st[k - 1].out)
  /\ FilterMapTest =>
       /\ ret.items = <<2, 6, 10, 14, 18>>
       /\ aret.items = <<2, 6, 10, 14, 18>>

C12_Witness ==
  /\ FilterMapTest
  /\ m.st[1].calls = TestEnd /\ am.st[1].calls = TestEnd
  /\ Len(ret.items) = 5

\* ------------------------------------------------------------------ C13
\* C13: filter(p) has at every moment yielded, in the parent's order, the
\* items pulled for which p is true; and over a finite sequence
\* filter(p1).filter(p2).collect() returns what
\* filter((x) => p1(x) && p2(x)).collect() returns.
RECURSIVE Filtered(_, _)
Filtered(f, s) ==
  IF s = <<>> THEN <<>>
  ELSE (IF Pred(f, Head(s)) THEN <<Head(s)>> ELSE <<>>) \o Filtered(f, Tail(s))

FiltersDone == run.law = "filters" /\ run.i = 2 /\ pc = "done"

C13_Filter ==
  /\ \A k \in StagesOf("filter") : Out(k) = Filtered(stages[k].f, Out(k - 1))
  /\ FiltersDone =>
       /\ run.res[1].pc = "done"
       /\ ret.items = run.res[1].ret.items
  /\ run.law = "tests" /\ pc = "done"
       /\ stages = <<Stage("filter", 0, "isEven", <<>>)>>
       => ret.items = <<2, 4, 6, 8, 10>>

C13_Witness ==
  /\ FiltersDone
  /\ source = Gen(1, TestEnd)
  /\ run.runs[1].stages[1].f = "isOdd" /\ run.runs[1].stages[2].f = "big"
  /\ stages[1].f = "isOdd&&big"
  /\ ret.items = <<3, 5, 7, 9>>

\* ------------------------------------------------------------------ C14
\* C14: map(f) has at every moment yielded f(item) for each item pulled, one
\* for one in the parent's order; and over a finite sequence
\* map(f).map(g).collect() returns what map((x) => g(f(x))).collect() returns.
MapsDone == run.law = "maps" /\ run.i = 2 /\ pc = "done"

C14_Map ==
  /\ \A k \in StagesOf("map") :
       /\ Len(Out(k)) = Len(Out(k - 1))
       /\ m.st[k].calls = Len(Out(k - 1))
       /\ \A i \in 1..Len(Out(k)) : Out(k)[i] = MapFn(stages[k].f, Out(k - 1)[i])
  /\ MapsDone =>
       /\ run.res[1].pc = "done"
       /\ ret.items = run.res[1].ret.items
  /\ run.law = "tests" /\ pc = "done"
       /\ stages = <<Stage("map", 0, "double", <<>>)>>
       => ret.items = <<2, 4, 6, 8, 10, 12, 14, 16, 18, 20>>

C14_Witness ==
  /\ MapsDone
  /\ source = Gen(1, 2)
  /\ run.runs[1].stages[1].f = "inc" /\ run.runs[1].stages[2].f = "double"
  /\ stages[1].f = "double.inc"
  /\ ret.items = <<4, 6>>

\* ------------------------------------------------------------------ C15
\* C15: enumerate() has at every moment yielded (i - 1, x_i) for the i-th
\* element x_i its parent yielded, one for one and in order: indices start
\* at 0 and grow by one per element of this stage, so that after a filter
\* only the elements that passed are numbered; over 1..10 collect returns
\* (0, 1), ..., (9, 10).
C15_Enumerate ==
  /\ \A k \in StagesOf("enumerate") :
       /\ Len(Out(k)) = Len(Out(k - 1))
       /\ \A i \in 1..Len(Out(k)) : Out(k)[i] = <<i - 1, Out(k - 1)[i]>>
  /\ run.law = "tests" /\ pc = "done"
       /\ stages = <<Stage("enumerate", 0, "none", <<>>)>>
       => ret.items = [i \in 1..TestEnd |-> <<i - 1, i>>]

\* enumerate after a filter that let only the second element through
C15_Witness ==
  /\ pc = "done"
  /\ source = Gen(1, 2)
  /\ Len(stages) = 2
  /\ stages[1] = Stage("filter", 0, "isEven", <<>>)
  /\ stages[2].op = "enumerate"
  /\ ret.items = << <<0, 2>> >>

\* ------------------------------------------------------------------ C16
\* C16: reduce(f, initial), of Iter and of AsyncIter, holds at every turn the
\* left fold of f over the elements yielded so far, starting from initial,
\* and returns it when the sequence ends: f is applied once per element in
\* yield order, and initial is returned for an empty sequence; the product
\* of 1..10 from 1 is 3628800.
RECURSIVE FoldLeft(_, _, _)
FoldLeft(f, a, s) ==
  IF s = <<>> THEN a ELSE FoldLeft(f, ReduceFn(f, a, Head(s)), Tail(s))

C16_Reduce ==
  term.op = "reduce" =>
    /\ acc = FoldLeft(term.f, term.initial, Out(Last))
    /\ pc = "done" =>
         /\ ret.set /\ ret.n = acc.n
         /\ Out(Last) = <<>> => ret.n = term.initial.n
    /\ apc = "done" =>
         /\ aret.set
         /\ aret.n = FoldLeft(term.f, term.initial,
                             IF astages = <<>> THEN am.src.out
                             ELSE am.st[Len(astages)].out).n
    /\ run.law = "tests" /\ pc = "done" => ret.n = 3628800 /\ aret.n = 3628800

\* 2 * (2 * 1 + 2) + 3 over 1..2 mapped by x + 1, from 1
C16_Witness ==
  /\ term.op = "reduce" /\ term.f = "shift" /\ term.initial.n = 1
  /\ pc = "done"
  /\ source = Gen(1, 2)
  /\ Len(stages) = 1 /\ stages[1].op = "map"
  /\ ret.n = 11

\* ------------------------------------------------------------------ C17
\* C17: over a finite sequence collect() returns the elements the chain
\* yielded, in order, count() returns their number and forEach(f) has called
\* f once on each of them in order; on the same chain written again,
\* count() returns collect().length and forEach calls f as many times.
SameDone(i) == run.law = "same" /\ run.i = i /\ pc = "done"

C17_Terminals ==
  /\ pc = "done" =>
       /\ term.op = "collect" => ret.items = Out(Last)
       /\ term.op = "count" => ret.n = Len(Out(Last))
       /\ term.op = "forEach" /\ term.f = "tally" =>
            acc.n = Len(Out(Last)) /\ acc.items = Out(Last)
  /\ Last = 0 /\ pc = "done" => Len(Out(0)) = source.hi
  /\ SameDone(2) => ret.n = Len(run.res[1].ret.items)
  /\ SameDone(3) =>
       /\ acc.n = run.res[2].ret.n
       /\ Len(acc.items) = Len(run.res[1].ret.items)
       /\ run.res[1].out = Out(Last)

C17_Witness ==
  /\ SameDone(3)
  /\ source = Gen(1, 2)
  /\ Len(stages) = 1 /\ stages[1] = Stage("chain", 0, "none", <<Gen(1, 1)>>)
  /\ run.res[1].ret.items = <<1, 2, 1>>
  /\ run.res[2].ret.n = 3
  /\ acc.n = 3

\* ------------------------------------------------------------------ C18
\* C18: Iter.repeatWith(f) never reports exhaustion; its n-th pull, counted
\* from 0, yields f(n), f having been invoked once per pull and for no index
\* that was not pulled: nothing is computed before the first pull or ahead
\* of the consumer.
C18_RepeatWith ==
  source.kind = "repeatWith" =>
    /\ ~m.src.fin
    /\ Len(m.src.out) = m.src.pulls
    /\ \A n \in 0..(m.src.pulls - 1) : m.src.out[n + 1] = RepeatFn(source.f, n)
    /\ Pulls(Last) = 0 => m.src.pulls = 0
    /\ \E q \in {SrcNext(source, m.src)} :
         \/ q.r = Capped
         \/ /\ q.r = Yield(RepeatFn(source.f, m.src.pulls))
            /\ q.s.pulls = m.src.pulls + 1

\* (i) => i * i pulled three times by skip(1).take(1)
C18_Witness ==
  /\ source = Rep("square")
  /\ pc = "done"
  /\ Len(stages) = 2 /\ stages[1].op = "skip" /\ stages[2].op = "take"
  /\ m.src.out = <<0, 1, 4>>
  /\ ret.items = <<1>>

\* ------------------------------------------------------------------ C19
\* C19: flat() has at every moment yielded the elements of the arrays its
\* parent yielded, array after array and each in its own order, up to the
\* place it has reached in the last one; when it reports exhaustion it has
\* yielded all of them.  An empty array adds nothing, an array inside an
\* array is yielded as it is, and two arrays [1, 2] give [1, 2, 1, 2].
C19_Flat ==
  \A k \in StagesOf("flat") :
    LET in == Out(k - 1)
        whole == Concat(SubSeq(in, 1, Len(in) - 1))
    IN
    /\ m.st[k].cur <= Len(m.st[k].held)
    /\ in # <<>> => m.st[k].held = in[Len(in)]
    /\ Out(k) = whole \o SubSeq(m.st[k].held, 1, m.st[k].cur)
    /\ Fin(k) => Out(k) = Concat(in)
    /\ pc = "done" /\ source = Rep("pair") /\ k = 2 /\ stages[1].n = 2
         => ret.items = <<1, 2, 1, 2>>

C19_Witness ==
  /\ pc = "done"
  /\ source = Rep("upto")
  /\ Len(stages) = 2 /\ stages[1] = Stage("take", 2, "none", <<>>)
  /\ stages[2].op = "flat"
  /\ Out(1) = << <<>>, <<1>> >>
  /\ ret.items = <<1>>

\* ------------------------------------------------------------------ C20
\* C20: each step of zip pulls its left side once and its right side once,
\* the left one first: the two sides have been pulled equally often, unless
\* Iter's left pull threw, which ends the step before the right pull (in
\* AsyncIter the right pull has been made by then); a step is made only when
\* zip is pulled, and each side has been pulled at most once more than pairs
\* were yielded, so zip holds no more than the pair it is working on.
AsyncZipPulls(k) ==
  LET left == IF k = 1 THEN am.src ELSE am.st[k - 1]
      right == am.st[k].subs[1]
  IN /\ left.pulls = right.pulls
     /\ left.pulls <= am.st[k].pulls
     /\ left.pulls <= Len(am.st[k].out) + 1

C20_ZipPulls ==
  /\ \A k \in StagesOf("zip") :
       LET right == m.st[k].subs[1] IN
       /\ Pulls(k - 1) = right.pulls + (IF ThrewUpTo(k - 1) THEN 1 ELSE 0)
       /\ Pulls(k - 1) <= Pulls(k)
       /\ Pulls(k - 1) <= Len(Out(k)) + 1
       /\ Len(Out(k - 1)) <= Len(Out(k)) + 1
       /\ Len(right.out) <= Len(Out(k)) + 1
  /\ \A k \in 1..Len(astages) : astages[k].op = "zip" => AsyncZipPulls(k)

\* the second step pulled 2 on the left and found the right side ended
C20_Witness ==
  /\ pc = "done" /\ apc = "done"
  /\ Len(stages) = 1 /\ stages[1].op = "zip"
  /\ source = Gen(1, 2) /\ stages[1].srcs[1] = Gen(MaxLen + 1, MaxLen + 1)
  /\ Pulls(0) = 2 /\ m.st[1].subs[1].pulls = 2
  /\ am.src.pulls = 2 /\ am.st[1].subs[1].pulls = 2
  /\ Len(Out(0)) = 2 /\ Len(Out(1)) = 1

\* ------------------------------------------------------------------ C21
\* C21: in a chain of map, filter, filterMap and enumerate, elements pass one
\* at a time: every call of a stage's function and every yield of a stage
\* comes right after the event that handed the element to that stage (the
\* pull from the source, or the yield of the stage before), the source is
\* pulled for the next element only when the last one was yielded by the
\* last stage or dropped by a filter, each element leaves the source once,
\* and between pulls no stage keeps an element it has not dealt with.
PerElement(c) ==
  /\ Len(c) >= 1
  /\ \A k \in 1..Len(c) : c[k].op \in {"map", "filter", "filterMap", "enumerate"}

Event(e, k) == [e |-> e, k |-> k]
Below(k) == IF k = 1 THEN Event("pull", 0) ELSE Event("yield", k - 1)

\* event j of the log is in its place
InPlace(c, log, j) ==
  LET this == log[j] IN
  CASE this.e = "call" -> j > 1 /\ log[j - 1] = Below(this.k)
    [] this.e = "yield" ->
         j > 1 /\ log[j - 1] = (IF c[this.k].op = "enumerate"
                                  THEN Below(this.k) ELSE Event("call", this.k))
    [] this.e = "pull" ->
         j > 1 =>
           \/ log[j - 1] = Event("yield", Len(c))
           \/ /\ log[j - 1].e = "call"
              /\ c[log[j - 1].k].op \in {"filter", "filterMap"}

\* what a chain's machine shows of the passage of elements
OneAtATime(c, M) ==
  /\ M.src.pulls = Len(M.src.out) + (IF M.src.fin THEN 1 ELSE 0)
  /\ source.kind = "gen" =>
       \A i \in 1..Len(M.src.out) : M.src.out[i] = source.lo + i - 1
  /\ Cardinality({j \in 1..Len(M.log) : M.log[j].e = "pull"}) = Len(M.src.out)
  /\ \A j \in 1..Len(M.log) : InPlace(c, M.log, j)
  /\ \A k \in 1..Len(c) :
       LET in == IF k = 1 THEN M.src.out ELSE M.st[k - 1].out IN
       IF c[k].op = "enumerate" THEN M.st[k].count = Len(in)
                                ELSE M.st[k].calls = Len(in)

C21_Flow ==
  /\ PerElement(stages) => OneAtATime(stages, m)
  /\ PerElement(astages) => OneAtATime(astages, am)

\* 1..2 through map(x + 1).filter(odd).map(x + 1): 1 is dropped by the
\* filter as 2, then 2 passes as 3 and is yielded as 4
C21_Witness ==
  /\ pc = "done"
  /\ source = Gen(1, 2)
  /\ stages = <<Stage("map", 0, "inc", <<>>), Stage("filter", 0, "isOdd", <<>>),
                Stage("map", 0, "inc", <<>>)>>
  /\ m.log = <<Event("pull", 0), Event("call", 1), Event("yield", 1),
               Event("call", 2),
               Event("pull", 0), Event("call", 1), Event("yield", 1),
               Event("call", 2), Event("yield", 2),
               Event("call", 3), Event("yield", 3)>>
  /\ ret.items = <<4>>

\* ------------------------------------------------------------------ C22
\* C22: when left.zip(right), of Iter or of AsyncIter, has reported
\* exhaustion after yielding p pairs, each side has been pulled p + 1 times,
\* p being the length of the shorter side; a side that has not ended has
\* yielded exactly one element more than was paired, which zip dropped, and
\* its later elements have not been pulled from it.
Exhausted(c, M, k) ==
  LET left == IF k = 1 THEN M.src ELSE M.st[k - 1]
      right == M.st[k].subs[1]
      p == Len(M.st[k].out)
  IN
  /\ left.pulls = p + 1 /\ right.pulls = p + 1
  /\ left.fin \/ right.fin
  /\ Len(left.out) = p + (IF left.fin THEN 0 ELSE 1)
  /\ Len(right.out) = p + (IF right.fin THEN 0 ELSE 1)
  /\ k = 1 /\ ~source.unbounded /\ ~c[k].srcs[1].unbounded =>
       /\ p = Min(Len(SrcItems(source)), Len(SrcItems(c[k].srcs[1])))
       /\ left.fin <=> Len(SrcItems(source)) <= Len(SrcItems(c[k].srcs[1]))
       /\ right.fin <=> Len(SrcItems(c[k].srcs[1])) <= Len(SrcItems(source))

C22_ZipDrained ==
  /\ \A k \in StagesOf("zip") :
       Fin(k) /\ ~ThrewUpTo(k) => Exhausted(stages, m, k)
  /\ \A k \in 1..Len(astages) :
       astages[k].op = "zip" /\ am.st[k].fin /\ ~(\E j \in 1..k : am.st[j].threw)
         => Exhausted(astages, am, k)

\* 1..2 zipped with a never-ending right side: the right side's third
\* element was pulled and dropped
C22_Witness ==
  /\ pc = "done" /\ apc = "done"
  /\ source = Gen(1, 2)
  /\ Len(stages) = 1 /\ stages[1].op = "zip" /\ stages[1].srcs[1] = GenFrom(0)
  /\ Len(Out(1)) = 2
  /\ m.st[1].subs[1].out = <<0, 1, 2>> /\ m.st[1].subs[1].pulls = 3
  /\ Pulls(0) = 3 /\ Fin(0)

\* ------------------------------------------------------------------ C23
\* C23: a wrapper of Iter or AsyncIter is passed over once and never starts
\* again. While it is only pulled by hand, by next() or by a loop over it,
\* it has been pulled once for every hand pull (the source itself when the
\* wrapper is new Iter(source)), and the j-th hand pull returned its j-th
\* element, or done once it has ended. A terminal operation called after
\* that is handed the elements after the hand-pulled ones and no others. A
\* terminal operation called again on the drained wrapper runs no turn on an
\* element and returns without a throw: collect gives [], count gives 0,
\* reduce gives initial, and forEach calls its function not once.
AOut == IF astages = <<>> THEN am.src.out ELSE am.st[Len(astages)].out
APulls == IF astages = <<>> THEN am.src.pulls ELSE am.st[Len(astages)].pulls

HandPulled ==
  Cardinality({i \in 1..Len(run.direct) : run.direct[i].r.kind = "value"})

After(out) == SubSeq(out, HandPulled + 1, Len(out))

\* what op returned, r, and what it did, a, is what it does on items
GivenOnly(r, a, items) ==
  /\ r.set
  /\ CASE term.op = "collect" -> r.items = items
       [] term.op = "count" -> r.n = Len(items)
       [] term.op = "reduce" -> r.n = FoldLeft(term.f, term.initial, items).n
       [] term.op = "forEach" -> a.items = items /\ a.n = Len(items)

C23_SinglePass ==
  /\ pc \in {"pull", "drain", "done"} /\ apc = pc
  /\ \A i \in 1..Len(run.direct) :
       /\ run.direct[i].ar = run.direct[i].r
       /\ run.direct[i].r =
            (IF i <= HandPulled THEN Yield(Out(Last)[i]) ELSE Done)
  /\ pc = "pull" => Pulls(Last) = Len(run.direct) /\ APulls = Len(run.direct)
  /\ HandPulled <= Len(Out(Last)) /\ AOut = Out(Last)
  /\ pc = "done" /\ run.res = <<>> =>
       /\ GivenOnly(ret, acc, After(Out(Last)))
       /\ GivenOnly(aret, aacc, After(AOut))
       /\ Last = 0 => Out(0) = SrcItems(source)
  /\ run.res # <<>> =>
       /\ Out(Last) = run.res[1].out /\ Out(0) = run.res[1].out0
       /\ acc = term.initial /\ aacc = term.initial
       /\ pc = "done" =>
            /\ GivenOnly(ret, acc, <<>>) /\ GivenOnly(aret, aacc, <<>>)
            /\ term.op = "collect" => ret.items = <<>> /\ aret.items = <<>>
            /\ term.op = "count" => ret.n = 0 /\ aret.n = 0
            /\ term.op = "reduce" =>
                 ret.n = term.initial.n /\ aret.n = term.initial.n
            /\ term.op = "forEach" => acc.n = 0 /\ aacc.n = 0

\* new Iter(sequentialIntegers(1, 2)): a loop left in its first turn saw 1,
\* collect() then gave [2], and collect() once more gave []
C23_Witness ==
  /\ source = Gen(1, 2) /\ stages = <<>> /\ term.op = "collect"
  /\ run.direct = <<[by |-> "for", r |-> Yield(1), ar |-> Yield(1)]>>
  /\ run.res # <<>> /\ run.res[1].ret.items = <<2>>
  /\ run.res[1].aret.items = <<2>>
  /\ pc = "done" /\ ret.set /\ ret.items = <<>>
  /\ apc = "done" /\ aret.set /\ aret.items = <<>>

====
